---------------------------- MODULE Spec2Model ----------------------------
(***************************************************************************)
(* A model of the Discord bot of foxbento/my_first_discord_go_bot: the     *)
(* link rewriter (modifyTwitterLinks, modifySingleLink), the link check    *)
(* (containsTwitterLink), the preview classifier in its three revisions    *)
(* (hasValidTwitterEmbed of src/main.go, hasValidTwitterPreview of         *)
(* src/unnamed/part_001 and src/unnamed/part_002) and the event handler    *)
(* messageCreate.                                                          *)
(*                                                                         *)
(* A text is a sequence of one-character strings, so that the regular      *)
(* expressions, strings.Index, TrimPrefix, HasPrefix and HasSuffix work on *)
(* characters as they do in the Go code.                                   *)
(***************************************************************************)
EXTENDS Integers, Sequences, FiniteSets, TLC

VARIABLES
    build,      \* the revision of the bot that is running
    pc,         \* "idle", "called" (messageCreate entered with m) or "done"
    m,          \* the message event messageCreate is called with
    reply,      \* the ChannelMessageSend calls of that call, in order
    logs,       \* the log lines of that call, in order
    text,       \* the rewriter's input (SpecRewrite)
    rw,         \* the rewriter's successive outputs on text (SpecRewrite)
    verdict     \* the classifier's verdict on m (SpecPreview)

vars == <<build, pc, m, reply, logs, text, rw, verdict>>

---------------------------------------------------------------------------
(* String literals of the source, as character sequences.                  *)

L_http == <<"h", "t", "t", "p">>
L_sep == <<":", "/", "/">>
L_httpP == <<"h", "t", "t", "p", ":", "/", "/">>
L_httpsP == <<"h", "t", "t", "p", "s", ":", "/", "/">>
L_www == <<"w", "w", "w", ".">>
L_twitter == <<"t", "w", "i", "t", "t", "e", "r", ".", "c", "o", "m">>
L_x == <<"x", ".", "c", "o", "m">>
L_status == <<"/", "s", "t", "a", "t", "u", "s", "/">>
L_fxtwitter == <<"h", "t", "t", "p", "s", ":", "/", "/", "f", "x", "t", "w", "i", "t", "t", "e", "r", ".", "c", "o", "m">>
L_fixupx == <<"h", "t", "t", "p", "s", ":", "/", "/", "f", "i", "x", "u", "p", "x", ".", "c", "o", "m">>
L_hello == <<"h", "e", "l", "l", "o">>
L_world == <<"w", "o", "r", "l", "d", "!">>

(* Character classes of Go's regexp (RE2) syntax.                          *)
Digits == {"0", "1", "2", "3", "4", "5", "6", "7", "8", "9"}

\* \s is [\t\n\f\r ]
Spaces == {" ", "\t", "\n", "\f", "\r"}

\* [a-zA-Z0-9_]
WordChars ==
    {"a", "b", "c", "d", "e", "f", "g", "h", "i", "j", "k", "l", "m", "n", "o",
     "p", "q", "r", "s", "t", "u", "v", "w", "x", "y", "z", "A", "B", "C", "D",
     "E", "F", "G", "H", "I", "J", "K", "L", "M", "N", "O", "P", "Q", "R", "S",
     "T", "U", "V", "W", "X", "Y", "Z", "0", "1", "2", "3", "4", "5", "6", "7",
     "8", "9", "_"}

---------------------------------------------------------------------------
(* The strings package.                                                    *)

\* lit occupies s[i .. i+Len(lit)-1]
LitAt(s, i, lit) ==
    /\ i >= 1
    /\ i + Len(lit) - 1 <= Len(s)
    /\ \A k \in 1..Len(lit) : s[i + k - 1] = lit[k]

HasPrefix(s, p) == LitAt(s, 1, p)

HasSuffix(s, p) == LitAt(s, Len(s) - Len(p) + 1, p)

TrimPrefix(s, p) == IF HasPrefix(s, p) THEN SubSeq(s, Len(p) + 1, Len(s)) ELSE s

\* strings.Contains
Contains(s, p) == \E i \in 1..(Len(s) + 1) : LitAt(s, i, p)

\* the least element of a non-empty set of positions
Least(ps) == CHOOSE x \in ps : \A y \in ps : x <= y

\* strings.Index for a one-character pattern, 1-based; 0 stands for -1
IndexChar(s, c) ==
    LET at == {i \in 1..Len(s) : s[i] = c}
    IN  IF at = {} THEN 0 ELSE Least(at)

\* the first position from i on whose character is in stop (Len(s)+1 if none):
\* where a greedy run of a negated class [^stop] that starts at i ends
RunNotIn(s, i, stop) ==
    LET ends == {j \in i..Len(s) : s[j] \in stop}
    IN  IF ends = {} THEN Len(s) + 1 ELSE Least(ends)

\* the first position from i on whose character is not in cls: where a greedy
\* run of the class [cls] that starts at i ends
RunIn(s, i, cls) ==
    LET ends == {j \in i..Len(s) : s[j] \notin cls}
    IN  IF ends = {} THEN Len(s) + 1 ELSE Least(ends)

---------------------------------------------------------------------------
(* The two regular expressions.  Go's regexp returns the leftmost match     *)
(* and, among the matches that start there, the one a backtracking search   *)
(* finds first; every quantifier of the two patterns is greedy.             *)

\* https?:// at i: the position after it, 0 when it is not there
SchemeEnd(s, i) ==
    IF ~LitAt(s, i, L_http) THEN 0
    ELSE IF LitAt(s, i + 4, <<"s">> \o L_sep) THEN i + 8
    ELSE IF LitAt(s, i + 4, L_sep) THEN i + 7
    ELSE 0

\* (twitter\.com|x\.com)/ at i: the position after it, 0 when it is not there
DomainEnd(s, i) ==
    IF LitAt(s, i, L_twitter \o <<"/">>) THEN i + Len(L_twitter) + 1
    ELSE IF LitAt(s, i, L_x \o <<"/">>) THEN i + Len(L_x) + 1
    ELSE 0

\* https?://(www\.)?(twitter\.com|x\.com)/ at i, the prefix the two patterns
\* share: the position after it, 0 when it is not there.  HostEnd is the part
\* after the scheme, which ends at p.
HostEnd(s, p) ==
    IF p = 0 THEN 0
    ELSE IF LitAt(s, p, L_www) /\ DomainEnd(s, p + Len(L_www)) # 0
         THEN DomainEnd(s, p + Len(L_www))
    ELSE DomainEnd(s, p)

LinkHeadEnd(s, i) == HostEnd(s, SchemeEnd(s, i))

\* >? after the trailing run, which ends before t: the last position of the match
ClosingEnd(s, t) == IF t <= Len(s) /\ s[t] = ">" THEN t ELSE t - 1

\* ([^<\s]*)>? from q on
TrailEnd(s, q) == ClosingEnd(s, RunNotIn(s, q, {"<"} \cup Spaces))

\* (\?[^\s<>]*)?([^<\s]*)>? from d on
QueryEnd(s, d) ==
    TrailEnd(s, IF d <= Len(s) /\ s[d] = "?"
                THEN RunNotIn(s, d + 1, Spaces \cup {"<", ">"})
                ELSE d)

\* \d+ and what follows it: the digits start at d0 and end before d
IdEnd(s, d0, d) == IF d = d0 THEN 0 ELSE QueryEnd(s, d)

\* [^/]+/status/ and what follows it: the handle starts at p and ends before h
HandleEnd(s, p, h) ==
    IF h = p \/ ~LitAt(s, h, L_status) THEN 0
    ELSE IdEnd(s, h + Len(L_status), RunIn(s, h + Len(L_status), Digits))

\* what follows the head of the link, which ends before p
BodyEnd(s, p) == IF p = 0 THEN 0 ELSE HandleEnd(s, p, RunNotIn(s, p, {"/"}))

\* https?://(www\.)?(twitter\.com|x\.com)/[^/]+/status/\d+(\?[^\s<>]*)?([^<\s]*)>?
\* at i: the last position of the match, 0 when there is none
LinkBodyEnd(s, i) == BodyEnd(s, LinkHeadEnd(s, i))

\* the pattern of modifyTwitterLinks, with its leading (<)?, at i: the last
\* position of the match, 0 when there is none
LinkPatternEnd(s, i) ==
    IF i <= Len(s) /\ s[i] = "<" THEN LinkBodyEnd(s, i + 1) ELSE LinkBodyEnd(s, i)

\* [a-zA-Z0-9_]+\/status\/[0-9]+ : the handle starts at p and ends before h
WordHandleAt(s, p, h) ==
    /\ h > p
    /\ LitAt(s, h, L_status)
    /\ h + Len(L_status) <= Len(s)
    /\ s[h + Len(L_status)] \in Digits

\* what follows the head of the link, which ends before p
WordBodyAt(s, p) == p # 0 /\ WordHandleAt(s, p, RunIn(s, p, WordChars))

\* the pattern of containsTwitterLink at i:
\* https?:\/\/(www\.)?(twitter\.com|x\.com)\/[a-zA-Z0-9_]+\/status\/[0-9]+
ContainsPatternAt(s, i) == WordBodyAt(s, LinkHeadEnd(s, i))

containsTwitterLink(content) ==
    \E i \in 1..Len(content) : ContainsPatternAt(content, i)

\* where the leftmost match of the pattern of modifyTwitterLinks at or after
\* position i starts, 0 when there is none
NextMatchStart(s, i) ==
    LET starts == {j \in i..Len(s) : LinkPatternEnd(s, j) # 0}
    IN  IF starts = {} THEN 0 ELSE Least(starts)

\* the successive non-overlapping matches of the pattern of modifyTwitterLinks
\* from position i on, as ReplaceAllStringFunc finds them: [lo, hi] records
RECURSIVE LinkMatchesFrom(_, _)
MatchesSpan(s, b, e) == <<[lo |-> b, hi |-> e]>> \o LinkMatchesFrom(s, e + 1)

MatchesAt(s, b) == IF b = 0 THEN <<>> ELSE MatchesSpan(s, b, LinkPatternEnd(s, b))

LinkMatchesFrom(s, i) == MatchesAt(s, NextMatchStart(s, i))

LinkMatches(s) == LinkMatchesFrom(s, 1)

---------------------------------------------------------------------------
(* The link rewriter.                                                      *)

\* a rewriter that does not cut the link at its query string
CutNothing(link, idx) == link

\* link[:idx], for the 1-based idx that stands for a found index, or link
CutAt(link, idx) == IF idx # 0 THEN SubSeq(link, 1, idx - 1) ELSE link

\* the "Replace domain" step of modifySingleLink
ReplaceDomain(link) ==
    IF HasPrefix(link, L_twitter) THEN L_fxtwitter \o TrimPrefix(link, L_twitter)
    ELSE IF HasPrefix(link, L_x) THEN L_fixupx \o TrimPrefix(link, L_x)
    ELSE link

modifySingleLink(link) ==
    ReplaceDomain(
        TrimPrefix(
            TrimPrefix(
                TrimPrefix(CutAt(link, IndexChar(link, "?")), L_httpP),
                L_httpsP),
            L_www))

\* a link in angle brackets, which the callback of modifyTwitterLinks preserves
IsEscaped(match) == HasPrefix(match, <<"<">>) /\ HasSuffix(match, <<">">>)

\* the callback modifyTwitterLinks hands to ReplaceAllStringFunc
ReplaceMatch(match) ==
    IF IsEscaped(match) THEN match ELSE modifySingleLink(match)

RECURSIVE ReplaceFrom(_, _)

\* a replacement that loses the text that stands before the match
ReplaceSpanOnly(s, i, b, e) ==
    ReplaceMatch(SubSeq(s, b, e)) \o ReplaceFrom(s, e + 1)

\* ReplaceAllStringFunc from position i on: the text between the matches is
\* copied, each match is replaced by the callback's result
ReplaceSpan(s, i, b, e) ==
    SubSeq(s, i, b - 1) \o ReplaceMatch(SubSeq(s, b, e)) \o ReplaceFrom(s, e + 1)

ReplaceAt(s, i, b) ==
    IF b = 0 THEN SubSeq(s, i, Len(s)) ELSE ReplaceSpan(s, i, b, LinkPatternEnd(s, b))

ReplaceFrom(s, i) == ReplaceAt(s, i, NextMatchStart(s, i))

modifyTwitterLinks(content) == ReplaceFrom(content, 1)

---------------------------------------------------------------------------
(* net/url: url.Parse and URL.Hostname, as far as the classifier uses them. *)
(* UrlParse gives [ok |-> whether Parse returned no error, host |-> the     *)
(* Host field]: the fragment and the query are cut off, the scheme is read  *)
(* up to the first colon, the authority is what stands between // and the   *)
(* next /, a port must be digits, a host must hold host characters only and *)
(* a % in the path must start an escape.                                    *)

Letters == WordChars \ (Digits \cup {"_"})

HexDigits == Digits \cup {"a", "b", "c", "d", "e", "f", "A", "B", "C", "D", "E", "F"}

\* the characters getScheme reads on: letters, and after the first, digits + - .
SchemeChars == Letters \cup Digits \cup {"+", "-", "."}

\* the characters a host may hold unescaped (shouldEscape, encodeHost)
HostChars ==
    WordChars \cup {"-", ".", "~", "!", "$", "&", "'", "(", ")", "*", "+", ",",
                    ";", "=", ":", "[", "]", "<", ">"}

\* strings.LastIndex for a one-character pattern, 1-based; 0 stands for -1
LastIndexChar(s, c) ==
    LET at == {i \in 1..Len(s) : s[i] = c}
    IN  IF at = {} THEN 0 ELSE CHOOSE x \in at : \A y \in at : y <= x

\* validOptionalPort on what follows the last colon of the host
ValidPort(hostport) ==
    LET c == LastIndexChar(hostport, ":")
    IN  c = 0 \/ \A i \in (c + 1)..Len(hostport) : hostport[i] \in Digits

\* unescape(path, encodePath) returns no error
ValidPath(path) ==
    \A i \in 1..Len(path) :
        path[i] = "%" =>
            /\ i + 2 <= Len(path)
            /\ path[i + 1] \in HexDigits
            /\ path[i + 2] \in HexDigits

UrlError == [ok |-> FALSE, host |-> <<>>]

\* parseHost on the host and port, then setPath on the path
ParseHost(hostport, path) ==
    IF ~ValidPort(hostport) \/ \E i \in 1..Len(hostport) : hostport[i] \notin HostChars
    THEN UrlError
    ELSE [ok |-> ValidPath(path), host |-> hostport]

\* parseAuthority: the host and port stand after the last @
HostPort(authority) ==
    SubSeq(authority, LastIndexChar(authority, "@") + 1, Len(authority))

\* rest starts with //: the authority ends before slash, the path starts there
ParseAuthority(rest, slash) ==
    ParseHost(HostPort(SubSeq(rest, 3, slash - 1)), SubSeq(rest, slash, Len(rest)))

\* parse after the scheme and the query are cut off
ParseRest(hasScheme, rest) ==
    IF ~HasPrefix(rest, <<"/">>) /\ hasScheme THEN [ok |-> TRUE, host |-> <<>>]
    ELSE IF /\ ~HasPrefix(rest, <<"/">>)
            /\ IndexChar(SubSeq(rest, 1, RunNotIn(rest, 1, {"/"}) - 1), ":") # 0
         THEN UrlError
    ELSE IF /\ HasPrefix(rest, <<"/", "/">>)
            /\ hasScheme \/ ~HasPrefix(rest, <<"/", "/", "/">>)
         THEN ParseAuthority(rest, RunNotIn(rest, 3, {"/"}))
    ELSE [ok |-> ValidPath(rest), host |-> <<>>]

\* strings.Cut(rest, "?"): what stands before the query
CutQuery(r) == SubSeq(r, 1, RunNotIn(r, 1, {"?"}) - 1)

\* getScheme: k is the first position of u that holds no scheme character
ParseScheme(u, k) ==
    IF k <= Len(u) /\ u[k] = ":" /\ k = 1 THEN UrlError
    ELSE IF k <= Len(u) /\ u[k] = ":" /\ u[1] \in Letters
         THEN ParseRest(TRUE, CutQuery(SubSeq(u, k + 1, Len(u))))
    ELSE ParseRest(FALSE, CutQuery(u))

\* parse on the URL without its fragment
ParseNoFragment(u) == ParseScheme(u, RunIn(u, 1, SchemeChars))

UrlParse(rawURL) ==
    ParseNoFragment(SubSeq(rawURL, 1, RunNotIn(rawURL, 1, {"#"}) - 1))

\* URL.Hostname: the host without its port
Hostname(host) == SubSeq(host, 1, RunNotIn(host, 1, {":"}) - 1)

---------------------------------------------------------------------------
(* The preview classifier, in the three revisions of the repository.        *)
(* An embed is [url, image, thumbnail] and an attachment is [url]; an       *)
(* empty text stands for an empty URL and for an absent Image or Thumbnail, *)
(* which the code skips alike.                                              *)

CDN_pbs ==
    <<"p", "b", "s", ".", "t", "w", "i", "m", "g", ".", "c", "o", "m">>

CDN_video ==
    <<"v", "i", "d", "e", "o", ".", "t", "w", "i", "m", "g", ".", "c", "o", "m">>

CDN_abs ==
    <<"a", "b", "s", ".", "t", "w", "i", "m", "g", ".", "c", "o", "m">>

CDN_ton ==
    <<"t", "o", "n", ".", "t", "w", "i", "m", "g", ".", "c", "o", "m">>

L_tweet_video_thumb ==
    <<"t", "w", "e", "e", "t", "_", "v", "i", "d", "e", "o", "_", "t", "h",
      "u", "m", "b">>

L_amplify_video_thumb ==
    <<"a", "m", "p", "l", "i", "f", "y", "_", "v", "i", "d", "e", "o", "_",
      "t", "h", "u", "m", "b">>

\* twitterCDNs of isTwitterEmbed (src/main.go)
twitterCDNs_main == {CDN_pbs, CDN_video, CDN_abs, CDN_ton}

\* twitterCDNs of isWorkingTwitterEmbed and isWorkingTwitterAttachment
twitterCDNs == {CDN_pbs, CDN_video, CDN_ton}

\* a classifier that takes a URL that fails to parse for a match
FailedOrMatches(u, cdns) ==
    ~u.ok \/ \E cdn \in cdns : HasSuffix(Hostname(u.host), cdn)

\* for _, cdn := range cdns { if strings.HasSuffix(u.Hostname(), cdn) ... }
\* on the parsed URL u, when err == nil
ParsedMatches(u, cdns) ==
    u.ok /\ \E cdn \in cdns : HasSuffix(Hostname(u.host), cdn)

\* one URL block of isTwitterEmbed (src/main.go), skipped on an empty URL
MainBlock(rawURL) ==
    rawURL # <<>> /\ ParsedMatches(UrlParse(rawURL), twitterCDNs_main)

\* isTwitterEmbed of src/main.go
isTwitterEmbed(embed) ==
    MainBlock(embed.url) \/ MainBlock(embed.image) \/ MainBlock(embed.thumbnail)

\* hasValidTwitterEmbed of src/main.go: the embeds only
hasValidTwitterEmbed(embeds) ==
    \E i \in 1..Len(embeds) : isTwitterEmbed(embeds[i])

\* one URL block of isWorkingTwitterEmbed on the parsed URL u: "true" and
\* "false" are returned at once, "next" goes on to the next block
ParsedBlock(u) ==
    IF ~u.ok THEN "next"
    ELSE IF \E cdn \in twitterCDNs : HasSuffix(Hostname(u.host), cdn) THEN "true"
    ELSE IF HasSuffix(Hostname(u.host), CDN_abs) THEN "false"
    ELSE "next"

WorkingBlock(rawURL) == ParsedBlock(UrlParse(rawURL))

\* a block of an embed, skipped on an empty URL
EmbedBlock(rawURL) == IF rawURL # <<>> THEN WorkingBlock(rawURL) ELSE "next"

\* the thumbnail block of isWorkingTwitterEmbed in src/unnamed/part_001, which
\* first returns false on a placeholder thumbnail
ThumbnailBlock_part_001(rawURL) ==
    IF rawURL = <<>> THEN "next"
    ELSE IF /\ UrlParse(rawURL).ok
            /\ \/ Contains(rawURL, L_tweet_video_thumb)
               \/ Contains(rawURL, L_amplify_video_thumb)
         THEN "false"
    ELSE WorkingBlock(rawURL)

\* what the three blocks of an embed return: the result of the first block
\* that does not go on to the next, false when all do
FirstReturn(blocks) ==
    \E k \in 1..Len(blocks) :
        /\ blocks[k] = "true"
        /\ \A j \in 1..(k - 1) : blocks[j] = "next"

\* isWorkingTwitterEmbed of src/unnamed/part_002
isWorkingTwitterEmbed_part_002(embed) ==
    FirstReturn(<<EmbedBlock(embed.url), EmbedBlock(embed.image),
                  EmbedBlock(embed.thumbnail)>>)

\* isWorkingTwitterEmbed of src/unnamed/part_001
isWorkingTwitterEmbed_part_001(embed) ==
    FirstReturn(<<EmbedBlock(embed.url), EmbedBlock(embed.image),
                  ThumbnailBlock_part_001(embed.thumbnail)>>)

\* isWorkingTwitterAttachment, the same in both revisions that have it
isWorkingTwitterAttachment(attachment) ==
    WorkingBlock(attachment.url) = "true"

\* hasValidTwitterPreview of src/unnamed/part_002
hasValidTwitterPreview_part_002(msg) ==
    \/ \E i \in 1..Len(msg.embeds) : isWorkingTwitterEmbed_part_002(msg.embeds[i])
    \/ \E j \in 1..Len(msg.attachments) : isWorkingTwitterAttachment(msg.attachments[j])

\* hasValidTwitterPreview of src/unnamed/part_001
hasValidTwitterPreview_part_001(msg) ==
    \/ \E i \in 1..Len(msg.embeds) : isWorkingTwitterEmbed_part_001(msg.embeds[i])
    \/ \E j \in 1..Len(msg.attachments) : isWorkingTwitterAttachment(msg.attachments[j])

\* the classifier messageCreate calls in the revision b
PreviewSufficient(b, msg) ==
    CASE b = "main" -> hasValidTwitterEmbed(msg.embeds)
      [] b = "part_001" -> hasValidTwitterPreview_part_001(msg)
      [] b = "part_002" -> hasValidTwitterPreview_part_002(msg)

---------------------------------------------------------------------------
(* The event handler.  An event is [author, channel, content, embeds,       *)
(* attachments]; a send is [channel, content, ok], ok telling whether       *)
(* ChannelMessageSend returned no error.                                    *)

BotID == "bot"

UserID == "user"

\* \d+ of the pattern of extractTwitterLinks: the digits start at d0 and end before d
ExtractIdEnd(d0, d) == IF d = d0 THEN 0 ELSE d - 1

\* [^/]+/status/\d+ : the handle starts at p and ends before h
ExtractHandleEnd(s, p, h) ==
    IF h = p \/ ~LitAt(s, h, L_status) THEN 0
    ELSE ExtractIdEnd(h + Len(L_status), RunIn(s, h + Len(L_status), Digits))

ExtractBodyEnd(s, p) == IF p = 0 THEN 0 ELSE ExtractHandleEnd(s, p, RunNotIn(s, p, {"/"}))

\* the pattern of extractTwitterLinks (src/unnamed/part_001) at i:
\* https?://(www\.)?(twitter\.com|x\.com)/[^/]+/status/\d+
\* the last position of the match, 0 when there is none
ExtractPatternEnd(s, i) == ExtractBodyEnd(s, LinkHeadEnd(s, i))

\* where the leftmost match of that pattern at or after position i starts
NextExtractStart(s, i) ==
    LET starts == {j \in i..Len(s) : ExtractPatternEnd(s, j) # 0}
    IN  IF starts = {} THEN 0 ELSE Least(starts)

\* extractTwitterLinks: FindAllString from position i on
RECURSIVE extractTwitterLinksFrom(_, _)
ExtractAt(s, b) ==
    IF b = 0 THEN <<>>
    ELSE <<SubSeq(s, b, ExtractPatternEnd(s, b))>>
           \o extractTwitterLinksFrom(s, ExtractPatternEnd(s, b) + 1)

extractTwitterLinksFrom(s, i) == ExtractAt(s, NextExtractStart(s, i))

extractTwitterLinks(content) == extractTwitterLinksFrom(content, 1)

\* the concatenation of the sequences f[1], ..., f[n]
RECURSIVE Flatten(_, _)
Flatten(f, n) == IF n = 0 THEN <<>> ELSE Flatten(f, n - 1) \o f[n]

\* logRawEmbeds of src/main.go
logRawEmbeds(embeds) ==
    <<"Raw Embed Array">> \o [i \in 1..Len(embeds) |-> "Embed raw data"]

\* logEmbedDetails of src/main.go
logEmbedDetails(embed) ==
    <<"Embed details", "Type", "Title", "Description", "URL">>
      \o (IF embed.image # <<>> THEN <<"Image URL">> ELSE <<>>)
      \o (IF embed.thumbnail # <<>> THEN <<"Thumbnail URL">> ELSE <<>>)
      \o <<"Is Twitter Embed">>

\* logTwitterMessage of src/main.go
logTwitterMessage_main(ev) ==
    <<"Twitter link detected", "Author", "Channel ID", "Content", "Timestamp",
      "Number of embeds">>
      \o Flatten([i \in 1..Len(ev.embeds) |-> logEmbedDetails(ev.embeds[i])],
                 Len(ev.embeds))

\* the lines logTwitterMessage of src/unnamed/part_001 writes for one link
logOneLink_part_001(ev) ==
    <<"Original Twitter Link", "Total Embeds in Message">>
      \o Flatten([i \in 1..Len(ev.embeds) |->
                    <<"Embed", "Type", "Title", "Description">>
                      \o (IF ev.embeds[i].image # <<>> THEN <<"Image URL">> ELSE <<>>)
                      \o (IF ev.embeds[i].thumbnail # <<>> THEN <<"Thumbnail URL">> ELSE <<>>)
                      \o <<"Fields">>],
                 Len(ev.embeds))
      \o <<"Total Attachments in Message">>
      \o Flatten([j \in 1..Len(ev.attachments) |->
                    <<"Attachment", "Filename", "URL", "Size">>],
                 Len(ev.attachments))

\* the lines of one link, n times
LinesTimes(lines, n) == Flatten([i \in 1..n |-> lines], n)

\* logTwitterMessage of src/unnamed/part_001
logTwitterMessage_part_001(ev) ==
    LinesTimes(logOneLink_part_001(ev), Len(extractTwitterLinks(ev.content)))

\* a handler that sends the rewriter's output without comparing it with the text
SendUncompared(ev, modifiedContent, sendOk) ==
    <<[channel |-> ev.channel, content |-> modifiedContent, ok |-> sendOk]>>

\* if modifiedContent != m.Content { s.ChannelMessageSend(m.ChannelID, modifiedContent) }
SendIfModified(ev, modifiedContent, sendOk) ==
    IF modifiedContent # ev.content
    THEN <<[channel |-> ev.channel, content |-> modifiedContent, ok |-> sendOk]>>
    ELSE <<>>

\* the rewritten message messageCreate sends, when it sends one
RewriteSends(ev, sendOk) == SendIfModified(ev, modifyTwitterLinks(ev.content), sendOk)

\* a handler that does not ignore the bot's own messages
messageCreateSendsToAll(b, ev, sendOk) ==
    IF ev.content = L_hello
    THEN <<[channel |-> ev.channel, content |-> L_world, ok |-> sendOk]>>
    ELSE IF containsTwitterLink(ev.content) /\ ~PreviewSufficient(b, ev)
         THEN RewriteSends(ev, sendOk)
    ELSE <<>>

\* messageCreate: the ChannelMessageSend calls it makes on the event ev in the
\* revision b, sendOk telling whether the call returns no error
messageCreateSends(b, ev, sendOk) ==
    IF ev.author = BotID THEN <<>>
    ELSE IF ev.content = L_hello
         THEN <<[channel |-> ev.channel, content |-> L_world, ok |-> sendOk]>>
    ELSE IF containsTwitterLink(ev.content)
         THEN IF ~PreviewSufficient(b, ev) THEN RewriteSends(ev, sendOk) ELSE <<>>
    ELSE <<>>

\* a handler that does not log a send that fails
NoSendErrorLog(sends) == <<>>

\* if err != nil { log.Println("Error sending modified message:", err) }
SendErrorLog(sends) ==
    IF sends # <<>> /\ ~sends[1].ok THEN <<"Error sending modified message:">> ELSE <<>>

\* the lines messageCreate logs in the revision b on a text with a link, the
\* classifier having said sufficient or not and the handler having made sends
LinkLogs(b, ev, sufficient, sends) ==
    CASE b = "main" ->
           logRawEmbeds(ev.embeds) \o logTwitterMessage_main(ev)
             \o <<"Has valid Twitter embed">>
             \o (IF ~sufficient
                 THEN <<"No valid Twitter embed found, modifying Twitter link">>
                        \o SendErrorLog(sends)
                 ELSE <<"Valid Twitter embed found, not modifying message">>)
      [] b = "part_001" -> logTwitterMessage_part_001(ev) \o SendErrorLog(sends)
      [] b = "part_002" -> SendErrorLog(sends)

\* messageCreate: the lines it logs, sends being the sends it makes
messageCreateLogs(b, ev, sends) ==
    IF ev.author = BotID THEN <<>>
    ELSE IF ev.content = L_hello
         THEN IF sends[1].ok THEN <<>> ELSE <<"Error sending message:">>
    ELSE IF ~containsTwitterLink(ev.content) THEN <<>>
    ELSE LinkLogs(b, ev, PreviewSufficient(b, ev), sends)

---------------------------------------------------------------------------
(* The texts the rewriter is run on: one link in every combination of its   *)
(* parts, inside some surrounding text, and chains of up to MaxLinks links.  *)

MaxLinks == 2

MaxPasses == 2

Leads == {<<>>, <<"<">>}

Protos == {L_httpP, L_httpsP}

Wwws == {<<>>, L_www}

OtherDomain == <<"t", ".", "c", "o">>

Domains == {L_twitter, L_x, OtherDomain}

Handles == {<<"u">>, <<"a", "-", "b">>, <<"a", "?", "b">>}

Ids == {<<"4", "2">>}

Queries ==
    {<<>>, <<"?", "s", "=", "1">>,
     <<"?", "t", "=", "%", "2", "0", "&", "s", "=", "1", "9">>}

Trails == {<<>>, <<">">>, <<">", ",">>, <<"/", "p">>}

Befores == {<<>>, <<"a", " ", "<", "b", ">", " ">>}

Afters == {<<>>, <<" ", "c">>}

LinkText(lead, proto, www, dom, handle, id, query, trail) ==
    lead \o proto \o www \o dom \o <<"/">> \o handle \o L_status \o id \o query \o trail

SingleLinkTexts ==
    { b \o LinkText(ld, pr, w, d, h, i, q, t) \o a :
        b \in Befores, ld \in Leads, pr \in Protos, w \in Wwws, d \in Domains,
        h \in Handles, i \in Ids, q \in Queries, t \in Trails, a \in Afters }

ChainLinks ==
    { LinkText(ld, L_httpsP, <<>>, d, <<"u">>, <<"7">>, <<>>, t) :
        ld \in Leads, d \in {L_twitter, L_x}, t \in {<<>>, <<">">>} }

ChainSeparators == {<<>>, <<" ">>}

RECURSIVE ChainTexts(_)
ChainTexts(n) ==
    IF n = 0 THEN {<<>>}
    ELSE LET shorter == ChainTexts(n - 1)
         IN  shorter \cup { c \o sp \o l : c \in shorter, sp \in ChainSeparators, l \in ChainLinks }

PlainTexts == {L_hello, <<"h", "i">>, <<"<", "b", ">">>, L_httpsP \o L_x \o <<"/", "u">>}

Texts == SingleLinkTexts \cup ChainTexts(MaxLinks) \cup PlainTexts

---------------------------------------------------------------------------
(* Values of the variables a specification does not use.                    *)

NoEvent == [author |-> "none"]

Builds == {"main", "part_001", "part_002"}

---------------------------------------------------------------------------
(* The embeds and attachments of a message: up to maxE embeds and maxA      *)
(* attachments that hold, all together, at most maxU URLs out of urls.      *)

U_pbs ==
    <<"h", "t", "t", "p", "s", ":", "/", "/", "p", "b", "s", ".", "t", "w",
      "i", "m", "g", ".", "c", "o", "m", "/", "m", "e", "d", "i", "a", "/", "a",
      ".", "j", "p", "g">>

U_thumb ==
    <<"h", "t", "t", "p", "s", ":", "/", "/", "p", "b", "s", ".", "t", "w",
      "i", "m", "g", ".", "c", "o", "m", "/", "t", "w", "e", "e", "t", "_", "v",
      "i", "d", "e", "o", "_", "t", "h", "u", "m", "b", "/", "a", ".", "j", "p",
      "g">>

U_abs ==
    <<"h", "t", "t", "p", "s", ":", "/", "/", "a", "b", "s", ".", "t", "w",
      "i", "m", "g", ".", "c", "o", "m", "/", "a", ".", "p", "n", "g">>

U_other ==
    <<"h", "t", "t", "p", "s", ":", "/", "/", "c", "d", "n", ".", "d", "i",
      "s", "c", "o", "r", "d", "a", "p", "p", ".", "c", "o", "m", "/", "a", ".",
      "p", "n", "g">>

U_badport ==
    <<"h", "t", "t", "p", "s", ":", "/", "/", "p", "b", "s", ".", "t", "w",
      "i", "m", "g", ".", "c", "o", "m", ":", "x", "/", "m", "e", "d", "i", "a",
      "/", "a", ".", "j", "p", "g">>

U_notpbs ==
    <<"h", "t", "t", "p", "s", ":", "/", "/", "n", "o", "t", "p", "b", "s",
      ".", "t", "w", "i", "m", "g", ".", "c", "o", "m", "/", "m", "e", "d", "i",
      "a", "/", "a", ".", "j", "p", "g">>

PreviewUrls == {U_pbs, U_thumb, U_abs, U_other, U_badport, U_notpbs}

EventUrls == {U_pbs, U_abs, U_other}

MaxEmbeds == 2

MaxAttachments == 1

MaxUrls == 2

MaxEventEmbeds == 1

MaxEventAttachments == 1

MaxEventUrls == 1

\* the embeds and attachments with ne embeds and na attachments whose URL
\* slots (three for an embed, one for an attachment) in the set filled hold
\* the URLs f gives them, the other slots being empty
PreviewOf(ne, na, filled, f) ==
    LET v(k) == IF k \in filled THEN f[k] ELSE <<>>
    IN  [embeds |-> [i \in 1..ne |->
                       [url |-> v(3 * i - 2), image |-> v(3 * i - 1), thumbnail |-> v(3 * i)]],
         attachments |-> [j \in 1..na |-> [url |-> v(3 * ne + j)]]]

\* the sets of at most maxU of the URL slots of ne embeds and na attachments
SlotSets(ne, na, maxU) ==
    { x \in SUBSET (1..(3 * ne + na)) : Cardinality(x) <= maxU }

Previews(maxE, maxA, maxU, urls) ==
    UNION { UNION { { PreviewOf(ne, na, filled, f) : f \in [filled -> urls] } :
                      filled \in SlotSets(ne, na, maxU) } :
              ne \in 0..maxE, na \in 0..maxA }

\* the texts of the events the handler is called with
EventTexts ==
    { LinkText(ld, L_httpsP, <<>>, L_x, h, <<"4", "2">>, q, t) :
        ld \in Leads, h \in {<<"u">>, <<"a", "-", "b">>}, q \in Queries,
        t \in {<<>>, <<">">>} }
    \cup { LinkText(<<>>, L_httpP, L_www, L_twitter, <<"u">>, <<"7">>, <<>>, <<>>),
           LinkText(<<>>, L_httpsP, <<>>, OtherDomain, <<"u">>, <<"7">>, <<>>, <<>>),
           L_hello, <<"h", "i">> }

Channels == {"c1", "c2"}

Events ==
    { [author |-> a, channel |-> c, content |-> t,
       embeds |-> pv.embeds, attachments |-> pv.attachments] :
        a \in {BotID, UserID}, c \in Channels, t \in EventTexts,
        pv \in Previews(MaxEventEmbeds, MaxEventAttachments, MaxEventUrls, EventUrls) }

\* a message the classifier is run on, with the embeds and attachments pv
PreviewMessage(pv) ==
    [author |-> UserID, channel |-> "c1",
     content |-> LinkText(<<>>, L_httpsP, <<>>, L_x, <<"u">>, <<"7">>, <<>>, <<>>),
     embeds |-> pv.embeds, attachments |-> pv.attachments]

---------------------------------------------------------------------------
(* SpecRewrite: the rewriter applied to a text, and again to its own output. *)

InitRewrite ==
    /\ build = "main"
    /\ pc = "idle"
    /\ m = NoEvent
    /\ reply = <<>>
    /\ logs = <<>>
    /\ text \in Texts
    /\ rw = <<>>
    /\ verdict = "none"

\* one call of modifyTwitterLinks, on the text or on the previous output
Rewrite ==
    /\ Len(rw) < MaxPasses
    /\ rw' = Append(rw, modifyTwitterLinks(IF rw = <<>> THEN text ELSE rw[Len(rw)]))
    /\ UNCHANGED <<build, pc, m, reply, logs, text, verdict>>

NextRewrite == Rewrite

SpecRewrite == InitRewrite /\ [][NextRewrite]_vars

---------------------------------------------------------------------------
(* SpecPreview: the classifier of the running revision applied to a message. *)

InitPreview ==
    /\ build \in Builds
    /\ pc = "idle"
    /\ \E ne \in 0..MaxEmbeds, na \in 0..MaxAttachments :
          \E filled \in SlotSets(ne, na, MaxUrls) :
              \E f \in [filled -> PreviewUrls] :
                  m = PreviewMessage(PreviewOf(ne, na, filled, f))
    /\ reply = <<>>
    /\ logs = <<>>
    /\ text = <<>>
    /\ rw = <<>>
    /\ verdict = "none"

\* one call of the classifier
Classify ==
    /\ verdict = "none"
    /\ verdict' = IF PreviewSufficient(build, m) THEN "sufficient" ELSE "insufficient"
    /\ UNCHANGED <<build, pc, m, reply, logs, text, rw>>

NextPreview == Classify

SpecPreview == InitPreview /\ [][NextPreview]_vars

---------------------------------------------------------------------------
(* Spec: the bot handling message events.  The platform calls messageCreate *)
(* with an event; the handler runs to its end and returns, and keeps        *)
(* nothing from one event to the next.                                      *)

Init ==
    /\ build \in Builds
    /\ pc = "idle"
    /\ m = NoEvent
    /\ reply = <<>>
    /\ logs = <<>>
    /\ text = <<>>
    /\ rw = <<>>
    /\ verdict = "none"

\* the platform calls the handler with the event ev
Call(ev) ==
    /\ m' = ev
    /\ pc' = "called"
    /\ reply' = <<>>
    /\ logs' = <<>>
    /\ UNCHANGED <<build, text, rw, verdict>>

\* a message event arrives
Deliver ==
    /\ pc = "idle"
    /\ \E ev \in Events : Call(ev)

\* the bot's own message, once sent, arrives as an event too
DeliverOwn ==
    /\ pc = "done"
    /\ reply # <<>>
    /\ reply[1].ok
    /\ Call([author |-> BotID, channel |-> reply[1].channel,
             content |-> reply[1].content, embeds |-> <<>>, attachments |-> <<>>])

\* messageCreate runs on m, its send (if it makes one) succeeding or failing
messageCreate ==
    /\ pc = "called"
    /\ \E sendOk \in BOOLEAN : reply' = messageCreateSends(build, m, sendOk)
    /\ logs' = messageCreateLogs(build, m, reply')
    /\ pc' = "done"
    /\ UNCHANGED <<build, m, text, rw, verdict>>

\* the handler has returned; nothing of the call is kept
Return ==
    /\ pc = "done"
    /\ pc' = "idle"
    /\ m' = NoEvent
    /\ reply' = <<>>
    /\ logs' = <<>>
    /\ UNCHANGED <<build, text, rw, verdict>>

Next == Deliver \/ DeliverOwn \/ messageCreate \/ Return

Spec == Init /\ [][Next]_vars

---------------------------------------------------------------------------
(* Claims about the rewriter, stated on the states of SpecRewrite in which  *)
(* modifyTwitterLinks has run.                                              *)

\* the parts of the link that matches at lo..hi of s, read off the text by the
\* detection rule: where the link proper starts (after a leading <), its
\* domain, its author-handle segment and its numeric id
LinkStart(s, lo) == IF s[lo] = "<" THEN lo + 1 ELSE lo

LinkMirror(s, lo) ==
    LET p == LinkHeadEnd(s, LinkStart(s, lo))
    IN  IF LitAt(s, p - Len(L_twitter) - 1, L_twitter \o <<"/">>) THEN L_fxtwitter ELSE L_fixupx

LinkHandle(s, lo) ==
    LET p == LinkHeadEnd(s, LinkStart(s, lo))
    IN  SubSeq(s, p, RunNotIn(s, p, {"/"}) - 1)

LinkId(s, lo) ==
    LET p == LinkHeadEnd(s, LinkStart(s, lo))
        d == RunNotIn(s, p, {"/"}) + Len(L_status)
    IN  SubSeq(s, d, RunIn(s, d, Digits) - 1)

\* the matches of the text that are not wrapped in a leading < and a trailing >
OpenMatches(s) ==
    LET ms == LinkMatches(s)
    IN  {k \in 1..Len(ms) : ~IsEscaped(SubSeq(s, ms[k].lo, ms[k].hi))}

Rewritten == Len(rw) >= 1

\* C1: after modifyTwitterLinks, no qualifying twitter.com or x.com status link
\* that is not wrapped in a leading < and a trailing > remains in the output,
\* however many links the text holds and wherever they stand.
C1_NoOpenLinkRemains ==
    Rewritten => OpenMatches(rw[1]) = {}

\* C2: every matched link that is not wrapped in angle brackets is replaced by
\* a text that starts with https://fxtwitter.com/ (twitter.com) or with
\* https://fixupx.com/ (x.com), and a text whose links are all on another
\* domain comes back unchanged.
C2_MirrorDomain ==
    Rewritten =>
        /\ \A k \in OpenMatches(text) :
              LET mt == LinkMatches(text)[k]
              IN  HasPrefix(ReplaceMatch(SubSeq(text, mt.lo, mt.hi)),
                            LinkMirror(text, mt.lo) \o <<"/">>)
        /\ (LinkMatches(text) = <<>> => rw[1] = text)

\* a qualifying link wrapped in a leading < and a trailing >, with or without
\* a query string
WrappedLinks ==
    { LinkText(<<"<">>, pr, w, d, h, i, q, <<">">>) :
        pr \in Protos, w \in Wwws, d \in {L_twitter, L_x}, h \in {<<"u">>},
        i \in Ids \cup {<<"7">>}, q \in Queries }

\* C3: a qualifying link wrapped in a leading < and a trailing >, anywhere in
\* the text, stands unchanged in the output, brackets included.
C3_WrappedSpanKept ==
    Rewritten => \A w \in WrappedLinks : Contains(text, w) => Contains(rw[1], w)

\* the matches of the text that start with the link itself, not with a <
BareMatches(s) == {k \in 1..Len(LinkMatches(s)) : s[LinkMatches(s)[k].lo] # "<"}

\* C9: every matched link that is not wrapped (here: every match that starts
\* with the link itself) is replaced by the canonical form
\* https://<mirror-domain>/<author-handle>/status/<id>, with the handle and the
\* id of the original link, whatever characters the handle holds.
C9_CanonicalForm ==
    Rewritten =>
        \A k \in BareMatches(text) :
            LET mt == LinkMatches(text)[k]
            IN  ReplaceMatch(SubSeq(text, mt.lo, mt.hi))
                  = LinkMirror(text, mt.lo) \o <<"/">> \o LinkHandle(text, mt.lo)
                      \o L_status \o LinkId(text, mt.lo)

NoAngleBrackets(s) == \A i \in 1..Len(s) : s[i] \notin {"<", ">"}

\* C10: on a text without angle brackets the rewriter is idempotent: a second
\* pass over its own output changes nothing.
C10_Idempotent ==
    (Len(rw) >= 2 /\ NoAngleBrackets(text)) => rw[2] = rw[1]

---------------------------------------------------------------------------
(* Claims about the handler, stated on the states of Spec in which          *)
(* messageCreate has returned.                                              *)

Handled == pc = "done" /\ m.author # BotID

\* the three conditions of the handler's pipeline, in the order it checks them
WantsRewrite(b, ev) ==
    /\ containsTwitterLink(ev.content)
    /\ ~PreviewSufficient(b, ev)
    /\ modifyTwitterLinks(ev.content) # ev.content

\* C4: on an event that is not the bot's own and whose text is not "hello",
\* messageCreate sends a message if and only if the text contains a link, the
\* classifier reports insufficient and the rewritten text differs from the
\* text; what it sends is exactly one message, the rewritten text, to the
\* channel of the event.
C4_SendsIffPipeline ==
    (Handled /\ m.content # L_hello) =>
        IF WantsRewrite(build, m)
        THEN /\ Len(reply) = 1
             /\ reply[1].channel = m.channel
             /\ reply[1].content = modifyTwitterLinks(m.content)
        ELSE reply = <<>>

\* the handler has sent a rewritten text
C4_Witness ==
    /\ Handled
    /\ m.content # L_hello
    /\ Len(reply) = 1
    /\ reply[1].content # m.content

\* the message carries an attachment whose URL has exactly the host h
HasAttachmentOn(msg, h) ==
    \E j \in 1..Len(msg.attachments) :
        /\ UrlParse(msg.attachments[j].url).ok
        /\ Hostname(UrlParse(msg.attachments[j].url).host) = h

\* C5: when the text contains a qualifying link and the message carries an
\* attachment whose URL host is pbs.twimg.com, the classifier reports
\* sufficient and the handler sends no reply.
C5_PbsAttachmentSuffices ==
    (Handled /\ containsTwitterLink(m.content) /\ HasAttachmentOn(m, CDN_pbs)) =>
        PreviewSufficient(build, m) /\ reply = <<>>

---------------------------------------------------------------------------
(* Claims about the classifier, stated on the states of SpecPreview in      *)
(* which it has given its verdict.                                          *)

Classified == verdict # "none"

\* the URL parses to a hostname that ends in one of the suffixes
UrlOn(rawURL, suffixes) ==
    rawURL # <<>> /\ ParsedMatches(UrlParse(rawURL), suffixes)

\* the thumbnail URL holds a marker of a placeholder video thumbnail
IsPlaceholder(rawURL) ==
    Contains(rawURL, L_tweet_video_thumb) \/ Contains(rawURL, L_amplify_video_thumb)

\* some URL of the message other than a placeholder thumbnail is on one of
\* the suffixes
SomeUrlOn(msg, suffixes) ==
    \/ \E i \in 1..Len(msg.embeds) :
          \/ UrlOn(msg.embeds[i].url, suffixes)
          \/ UrlOn(msg.embeds[i].image, suffixes)
          \/ UrlOn(msg.embeds[i].thumbnail, suffixes) /\ ~IsPlaceholder(msg.embeds[i].thumbnail)
    \/ \E j \in 1..Len(msg.attachments) : UrlOn(msg.attachments[j].url, suffixes)

\* C6: the classifier reports sufficient exactly when some URL of the message
\* (an embed's primary, image or thumbnail URL, or an attachment's URL) parses
\* to a hostname ending in a media-CDN suffix, and insufficient otherwise.
C6_SufficientIffSomeUrlMatches ==
    Classified => (verdict = "sufficient" <=> SomeUrlOn(m, twitterCDNs))

\* some thumbnail of the message is a placeholder on a media-CDN host
SomePlaceholderThumbnail(msg) ==
    \E i \in 1..Len(msg.embeds) :
        UrlOn(msg.embeds[i].thumbnail, twitterCDNs) /\ IsPlaceholder(msg.embeds[i].thumbnail)

\* C7: a message whose only CDN-hosted URLs are placeholder thumbnails is
\* classified insufficient.
C7_PlaceholderNeverCounts ==
    (Classified /\ SomePlaceholderThumbnail(m) /\ ~SomeUrlOn(m, twitterCDNs_main)) =>
        verdict = "insufficient"

\* the URL, or no URL when its hostname ends in abs.twimg.com
DropAbs(rawURL) == IF UrlOn(rawURL, {CDN_abs}) THEN <<>> ELSE rawURL

\* the message without its URLs on abs.twimg.com
WithoutAbs(msg) ==
    [msg EXCEPT
       !.embeds = [i \in 1..Len(msg.embeds) |->
                     [url |-> DropAbs(msg.embeds[i].url),
                      image |-> DropAbs(msg.embeds[i].image),
                      thumbnail |-> DropAbs(msg.embeds[i].thumbnail)]],
       !.attachments = [j \in 1..Len(msg.attachments) |->
                          [url |-> DropAbs(msg.attachments[j].url)]]]

\* C8: a URL on abs.twimg.com counts as not matching and scanning goes on: the
\* verdict is the one the classifier gives on the same message without its
\* abs.twimg.com URLs.
C8_AbsIsSkipped ==
    Classified => (verdict = "sufficient" <=> PreviewSufficient(build, WithoutAbs(m)))

---------------------------------------------------------------------------
(* Further claims about the rewriter, on the states of SpecRewrite.         *)

\* the spans of s among ms that are not wrapped in a leading < and a trailing >
OpenAmong(s, ms) ==
    { ms[k] : k \in { j \in 1..Len(ms) : ~IsEscaped(SubSeq(s, ms[j].lo, ms[j].hi)) } }

\* the spans of the matches of s that are not wrapped
OpenSpans(s) == OpenAmong(s, LinkMatches(s))

\* the positions of s inside one of the spans
InSpans(s, spans) ==
    { i \in 1..Len(s) : \E sp \in spans : sp.lo <= i /\ i <= sp.hi }

\* how many times the character c stands at the positions ps of s
CountAt(s, ps, c) == Cardinality({ i \in ps : s[i] = c })

\* no replacement of a span holds a question mark, and the question marks of
\* the output out are as many as those of s outside the spans
QueryAbsentIn(s, out, spans) ==
    /\ \A sp \in spans : IndexChar(ReplaceMatch(SubSeq(s, sp.lo, sp.hi)), "?") = 0
    /\ CountAt(out, 1..Len(out), "?")
         = CountAt(s, (1..Len(s)) \ InSpans(s, spans), "?")

\* C11: the query string of every link the rewriter rewrites (the ? and what
\* follows it up to the next whitespace or <) is absent from the output: no
\* replacement holds a question mark, and the only question marks of the
\* output are those the text holds outside the rewritten links.
C11_QueryAbsent ==
    Rewritten => QueryAbsentIn(text, rw[1], OpenSpans(text))

\* a link with a query string has been rewritten to a link on a mirror domain
C11_Witness ==
    /\ Rewritten
    /\ rw[1] # text
    /\ CountAt(text, InSpans(text, OpenSpans(text)), "?") > 0
    /\ \E i \in 1..Len(rw[1]) : LitAt(rw[1], i, L_fixupx)

\* by how much the replacements of the first n matches ms of s lengthen it
RECURSIVE ShiftAfter(_, _, _)
ShiftAfter(s, ms, n) ==
    IF n = 0 THEN 0
    ELSE ShiftAfter(s, ms, n - 1)
           + Len(ReplaceMatch(SubSeq(s, ms[n].lo, ms[n].hi))) - (ms[n].hi - ms[n].lo + 1)

\* how many of the matches ms end before position i
MatchesBefore(ms, i) == Cardinality({ k \in 1..Len(ms) : ms[k].hi < i })

\* every character of s outside the matches ms stands in out, moved only by
\* the change of length of the matches before it, and out holds nothing more
\* than these characters and the replacements
FrameKept(s, out, ms) ==
    /\ Len(out) = Len(s) + ShiftAfter(s, ms, Len(ms))
    /\ \A i \in (1..Len(s)) \ InSpans(s, { ms[k] : k \in 1..Len(ms) }) :
          out[i + ShiftAfter(s, ms, MatchesBefore(ms, i))] = s[i]

\* C12: the rewriter changes nothing outside the spans it matches: the
\* characters before, between and after them keep their content and order,
\* and a text with no match comes back as it is.
C12_FrameKept ==
    Rewritten =>
        /\ FrameKept(text, rw[1], LinkMatches(text))
        /\ (LinkMatches(text) = <<>> => rw[1] = text)

\* the text has, around and between two matches, characters outside them,
\* and the rewriter has changed it
SurroundedMatches(s, ms) ==
    /\ Len(ms) >= 2
    /\ ms[1].lo > 1
    /\ ms[1].hi + 1 < ms[2].lo
    /\ s[ms[1].hi + 1] \in Spaces

C12_Witness ==
    Rewritten /\ rw[1] # text /\ SurroundedMatches(text, LinkMatches(text))

---------------------------------------------------------------------------
(* Further claims about the classifier, on the states of SpecPreview.       *)

\* the URL is there and fails to parse
Malformed(rawURL) == rawURL # <<>> /\ ~UrlParse(rawURL).ok

\* the URL, or no URL when it fails to parse
DropMalformed(rawURL) == IF Malformed(rawURL) THEN <<>> ELSE rawURL

\* the message without its URLs that fail to parse
WithoutMalformed(msg) ==
    [msg EXCEPT
       !.embeds = [i \in 1..Len(msg.embeds) |->
                     [url |-> DropMalformed(msg.embeds[i].url),
                      image |-> DropMalformed(msg.embeds[i].image),
                      thumbnail |-> DropMalformed(msg.embeds[i].thumbnail)]],
       !.attachments = [j \in 1..Len(msg.attachments) |->
                          [url |-> DropMalformed(msg.attachments[j].url)]]]

\* C13: a URL that fails to parse counts as not matching and the classifier
\* goes on: its verdict is the one it gives on the same message without the
\* URLs that fail to parse.
C13_MalformedIsSkipped ==
    Classified => (verdict = "sufficient" <=> PreviewSufficient(build, WithoutMalformed(m)))

\* an embed whose primary URL fails to parse and whose image URL, examined
\* after it, made the classifier report sufficient
C13_Witness ==
    /\ verdict = "sufficient"
    /\ Len(m.embeds) = 1
    /\ Malformed(m.embeds[1].url)
    /\ m.embeds[1].image = U_pbs
    /\ m.embeds[1].thumbnail = <<>>
    /\ \A j \in 1..Len(m.attachments) : m.attachments[j].url = <<>>

---------------------------------------------------------------------------
(* Further claims about the handler, on the behaviours of Spec.             *)

\* the send of the call has failed
SendFailed == pc = "done" /\ reply # <<>> /\ ~reply[1].ok

\* the lines of the log that report a send that failed
ErrorLines(ls) ==
    { i \in 1..Len(ls) :
        ls[i] \in {"Error sending modified message:", "Error sending message:"} }

\* what holds of every state: one send at most, nothing waiting when the
\* handler is entered, one error line exactly when the send has failed, and
\* the handler can return after a send that failed
OneSendLoggedOnce ==
    /\ Len(reply) <= 1
    /\ pc \in {"idle", "called"} => reply = <<>> /\ logs = <<>>
    /\ pc = "done" => Cardinality(ErrorLines(logs)) = (IF SendFailed THEN 1 ELSE 0)
    /\ SendFailed => ErrorLines(logs) = {Len(logs)}
    /\ SendFailed => ENABLED Return

\* C14: when the send fails, messageCreate only logs it: the send is made at
\* most once for the event, one error line is logged, and the only step that
\* follows is the handler's return, after which nothing of the event is kept
\* and the next event can be delivered.
C14_SendFailureOnlyLogged ==
    /\ []OneSendLoggedOnce
    /\ [][SendFailed => (pc' = "idle" /\ reply' = <<>> /\ m' = NoEvent)]_vars

\* the send of a rewritten message has failed and the failure is logged
C14_Witness ==
    /\ SendFailed
    /\ m.content # L_hello
    /\ reply[1].content = modifyTwitterLinks(m.content)
    /\ logs[Len(logs)] = "Error sending modified message:"

---------------------------------------------------------------------------
(* SpecConcurrent: the library runs every call of the handler in a          *)
(* goroutine of its own, so several calls of messageCreate are under way at *)
(* once.  Each call h has its own parameter m[h] and its own locals (the    *)
(* place pc[h] it has reached, the text text[h] it is about to send, the    *)
(* sends reply[h] it has made); the calls share the session, which they     *)
(* only read, and the channel, of which logs keeps the sends in the order   *)
(* they are made.                                                           *)

MaxHandlers == 2

Handlers == 1..MaxHandlers

\* a sharing handler: it reads the event from a place the calls share, which
\* holds the event of the first call
EventOfShared(ms, h) == IF ms[1] # NoEvent THEN ms[1] ELSE ms[h]

\* the parameter m of the call h
EventOf(ms, h) == ms[h]

E_none == <<>>

\* the events the concurrent calls are made with
ConcurrentEvents ==
    LET link == LinkText(<<>>, L_httpsP, <<>>, L_x, <<"u">>, <<"4", "2">>, <<"?", "s", "=", "1">>, <<>>)
        wrapped == LinkText(<<"<">>, L_httpsP, <<>>, L_twitter, <<"u">>, <<"7">>, <<>>, <<">">>)
        pbs == <<[url |-> U_pbs, image |-> <<>>, thumbnail |-> <<>>]>>
        ev(a, c, t, es) ==
            [author |-> a, channel |-> c, content |-> t, embeds |-> es,
             attachments |-> E_none]
    IN  { ev(UserID, "c1", link, E_none), ev(UserID, "c2", link, pbs),
          ev(UserID, "c2", wrapped, E_none), ev(UserID, "c1", L_hello, E_none),
          ev(UserID, "c2", <<"h", "i">>, E_none), ev(BotID, "c1", link, E_none) }

InitConcurrent ==
    /\ build \in Builds
    /\ pc = [h \in Handlers |-> "idle"]
    /\ m = [h \in Handlers |-> NoEvent]
    /\ reply = [h \in Handlers |-> <<>>]
    /\ text = [h \in Handlers |-> <<>>]
    /\ logs = <<>>
    /\ rw = <<>>
    /\ verdict = "none"

\* the library starts the call h of messageCreate with an event
Start(h) ==
    /\ pc[h] = "idle"
    /\ \E ev \in ConcurrentEvents : m' = [m EXCEPT ![h] = ev]
    /\ pc' = [pc EXCEPT ![h] = "called"]
    /\ UNCHANGED <<build, reply, logs, text, rw, verdict>>

\* if m.Author.ID == s.State.User.ID { return }; if m.Content == "hello" ...
CheckAuthor(h) ==
    /\ pc[h] = "called"
    /\ IF EventOf(m, h).author = BotID
       THEN pc' = [pc EXCEPT ![h] = "done"] /\ text' = text
       ELSE IF EventOf(m, h).content = L_hello
            THEN /\ pc' = [pc EXCEPT ![h] = "sending"]
                 /\ text' = [text EXCEPT ![h] = L_world]
            ELSE pc' = [pc EXCEPT ![h] = "checking"] /\ text' = text
    /\ UNCHANGED <<build, m, reply, logs, rw, verdict>>

\* if containsTwitterLink(m.Content) { ... if !hasValidEmbed {
CheckLink(h) ==
    /\ pc[h] = "checking"
    /\ pc' = [pc EXCEPT ![h] =
                IF /\ containsTwitterLink(EventOf(m, h).content)
                   /\ ~PreviewSufficient(build, EventOf(m, h))
                THEN "rewriting" ELSE "done"]
    /\ UNCHANGED <<build, m, reply, logs, text, rw, verdict>>

\* modifiedContent := modifyTwitterLinks(m.Content); if modifiedContent != m.Content {
RewriteContent(h) ==
    /\ pc[h] = "rewriting"
    /\ text' = [text EXCEPT ![h] = modifyTwitterLinks(EventOf(m, h).content)]
    /\ pc' = [pc EXCEPT ![h] =
                IF text'[h] # EventOf(m, h).content THEN "sending" ELSE "done"]
    /\ UNCHANGED <<build, m, reply, logs, rw, verdict>>

\* s.ChannelMessageSend(m.ChannelID, ...), which succeeds or fails
Send(h) ==
    /\ pc[h] = "sending"
    /\ \E sendOk \in BOOLEAN :
          /\ reply' = [reply EXCEPT ![h] =
                          <<[channel |-> EventOf(m, h).channel, content |-> text[h],
                             ok |-> sendOk]>>]
          /\ logs' = Append(logs, [handler |-> h, send |-> reply'[h][1]])
    /\ pc' = [pc EXCEPT ![h] = "done"]
    /\ UNCHANGED <<build, m, text, rw, verdict>>

NextConcurrent ==
    \E h \in Handlers :
        Start(h) \/ CheckAuthor(h) \/ CheckLink(h) \/ RewriteContent(h) \/ Send(h)

SpecConcurrent == InitConcurrent /\ [][NextConcurrent]_vars

---------------------------------------------------------------------------
(* Claims about concurrent calls, on the states of SpecConcurrent.          *)

\* the calls that have made their send
Senders == { h \in Handlers : reply[h] # <<>> }

\* C15: whatever the interleaving of the calls and the outcome of the other
\* calls' sends, what a call has sent when it returns is what messageCreate
\* sends on its own event alone; a call that has not returned has sent at
\* most that; and the channel holds exactly the sends of the calls, one each.
C15_RepliesDependOnOwnEvent ==
    /\ \A h \in Handlers :
          pc[h] = "done" =>
              \E sendOk \in BOOLEAN : reply[h] = messageCreateSends(build, m[h], sendOk)
    /\ \A h \in Handlers : pc[h] # "done" => reply[h] = <<>>
    /\ Len(logs) = Cardinality(Senders)
    /\ { logs[i] : i \in 1..Len(logs) }
         = { [handler |-> h, send |-> reply[h][1]] : h \in Senders }

\* two calls on different events have both returned, the second one's send
\* made before the first one's, one send having failed
C15_Witness ==
    /\ pc[1] = "done" /\ pc[2] = "done"
    /\ m[1] # m[2]
    /\ Len(logs) >= 2
    /\ logs[1].handler = 2 /\ logs[2].handler = 1
    /\ ~logs[1].send.ok /\ logs[2].send.ok

---------------------------------------------------------------------------
(* The handler's link check against the rewriter, on the states of          *)
(* SpecRewrite.                                                             *)

\* C16: containsTwitterLink is true of every text in which the rewriter
\* matches a link.
C16_CheckAgreesWithRewriter ==
    Rewritten => (LinkMatches(text) # <<>> => containsTwitterLink(text))

---------------------------------------------------------------------------
(* Claims about the bot's own messages, on the states of Spec.              *)

\* C17: a call on an event the bot authored sends nothing and logs nothing,
\* whatever its text, so nothing of it comes back as a further event; every
\* send is the single send of a call on a user's event, so the bot sends at
\* most one message for each user message.
C17_NoSelfReply ==
    /\ (pc = "done" /\ m.author = BotID) =>
          (reply = <<>> /\ logs = <<>> /\ ~ENABLED DeliverOwn)
    /\ reply # <<>> => (m.author = UserID /\ Len(reply) = 1)

\* the handler has returned from an event of the bot whose text, had a user
\* written it, would have been answered
C17_Witness ==
    /\ pc = "done"
    /\ m.author = BotID
    /\ m.content = L_hello \/ WantsRewrite(build, m)
    /\ reply = <<>>

\* the text holds a link on a mirror domain
HasMirrorLink(s) ==
    \E i \in 1..Len(s) :
        LitAt(s, i, L_fxtwitter \o <<"/">>) \/ LitAt(s, i, L_fixupx \o <<"/">>)

\* C18: every rewritten message the handler sends holds at least one link on
\* a mirror domain, https://fxtwitter.com/ or https://fixupx.com/.
C18_ReplyHasMirrorLink ==
    (Handled /\ m.content # L_hello /\ reply # <<>>) => HasMirrorLink(reply[1].content)

---------------------------------------------------------------------------
(* The suffix test of the classifier, on the states of SpecPreview.         *)

\* the URL parses to a hostname that is one of the hosts or a subdomain of one
UrlAlignedOn(rawURL, hosts) ==
    /\ rawURL # <<>>
    /\ UrlParse(rawURL).ok
    /\ \E cdn \in hosts :
          \/ Hostname(UrlParse(rawURL).host) = cdn
          \/ HasSuffix(Hostname(UrlParse(rawURL).host), <<".">> \o cdn)

\* some URL of the message is on one of the hosts or on a subdomain of one
SomeUrlAlignedOn(msg, hosts) ==
    \/ \E i \in 1..Len(msg.embeds) :
          \/ UrlAlignedOn(msg.embeds[i].url, hosts)
          \/ UrlAlignedOn(msg.embeds[i].image, hosts)
          \/ UrlAlignedOn(msg.embeds[i].thumbnail, hosts)
    \/ \E j \in 1..Len(msg.attachments) : UrlAlignedOn(msg.attachments[j].url, hosts)

\* C19: the classifier reports sufficient only when some URL of the message
\* has a hostname that is a twimg.com media host or a subdomain of one; a
\* hostname that only ends with the same characters does not count.
C19_SuffixAlignedOnDot ==
    verdict = "sufficient" => SomeUrlAlignedOn(m, twitterCDNs_main)

===========================================================================
